---- MODULE Spec2Model ----
(***************************************************************************)
(* A model of two parts of the repository:                                 *)
(*                                                                         *)
(*  - AnsibleToNixConverter (src/lib/converters/ansible_to_nix.py): the    *)
(*    conversion of one task, with the syscall-based path that looks the   *)
(*    source trace up in trace_database, scores the 'nix:' entries and     *)
(*    applies the confidence threshold;                                    *)
(*  - NixBuilder (src/lib/strace/collection/nix/builder.py): the           *)
(*    collection of a trace for a Nix expression or derivation, with the   *)
(*    traced_derivations cache, the external processes it waits for and    *)
(*    the temporary files it creates.                                      *)
(*                                                                         *)
(* Scores are hundredths: 60 stands for 0.6.                               *)
(***************************************************************************)
EXTENDS Integers, Sequences, FiniteSets, TLC

VARIABLES
    \* ---- AnsibleToNixConverter ----
    trace_database,   \* the dict, as the sequence of its items in insertion order
    cpc,              \* where _convert_task is: "idle", "search", "done"
    module,           \* the module name _extract_module_name returned
    i,                \* position of the loop of _find_best_nix_match
    best_score,       \* local of _find_best_nix_match
    best_result,      \* local of _find_best_nix_match: index of the entry, 0 for None
    scored,           \* the score of every entry visited so far (NotScored: not a candidate)
    searched,         \* _find_best_nix_match has returned
    generated,        \* _generate_from_match has been invoked
    outcome,          \* what _convert_task gave its caller
    \* ---- NixBuilder ----
    traced_derivations, \* the cache: key -> trace (NoTrace: no entry)
    bpc,              \* per caller: where its call is
    call,             \* per caller: the entry point it called
    drv,              \* per caller: the derivation of the call
    trace,            \* per caller: local `trace` of trace_derivation / the value returned
    err,              \* per caller: the exception that ended the call
    lastrc,           \* per caller: returncode of the last external process that exited
    hung,             \* per caller: the external process waited for never exits
    files,            \* per caller: temporary files of the call that exist
    produced,         \* every trace _build_with_trace has returned
    ncalls,           \* calls started so far
    \* ---- StatefulConversionTest ----
    tasks,            \* self.tasks: the module of every task added
    converted,        \* len(self.converted)
    \* ---- trace comparison: scoring and preprocessing functions ----
    trace1,           \* first input trace: a sequence of syscalls
    trace2,           \* second input trace
    idx1,             \* index of the first Hole compared
    idx2,             \* index of the second Hole compared
    text,             \* input string of CanonicalForm, as its characters
    lhs,              \* first operand of an equality strategy
    rhs,              \* second operand of an equality strategy
    ppc,              \* which function has been applied to the inputs
    returned,         \* what the function returned
    rerun,            \* what the next application, to that result, returned
    \* ---- AnsibleNixValidator ----
    vpc,              \* position of the validate_conversion call
    containers,       \* the validation containers: "down", "partial" or "up"
    ansible_state,    \* SystemState captured after the playbook
    nix_state,        \* SystemState captured after the Nix configuration
    validation,       \* the ValidationResult of _compare_states
    verr,             \* the exception in flight in validate_conversion
    \* ---- task extraction and package name translation ----
    task,             \* the task: its items in insertion order
    package_name,     \* the package name translated
    simple,           \* the converter is SimpleAnsibleToNixConverter
    xpc,              \* which method has been applied to the input
    extracted_module, \* what _extract_module_name returned
    extracted_params, \* what _extract_parameters returned
    translated,       \* what _translate_package_name returned
    retranslated      \* what it returned for that result

cvars == <<trace_database, cpc, module, i, best_score, best_result, scored,
           searched, generated, outcome>>
bvars == <<traced_derivations, bpc, call, drv, trace, err, lastrc, hung, files,
           produced, ncalls>>
hvars == <<tasks, converted>>
\* what the converter's methods leave alone, and what the builder's leave alone
inputs == <<trace1, trace2, idx1, idx2, text, lhs, rhs>>
pvars == <<inputs, ppc, returned, rerun>>
vvars == <<vpc, containers, ansible_state, nix_state, validation, verr>>
xvars == <<task, package_name, simple, xpc, extracted_module, extracted_params,
           translated, retranslated>>
nonconverter == <<bvars, pvars, vvars, xvars>>
nonbuilder == <<cvars, hvars, pvars, vvars, xvars>>
noncomparison == <<cvars, bvars, hvars, vvars, xvars>>
nonvalidator == <<cvars, bvars, hvars, pvars, xvars>>
nonextraction == <<cvars, bvars, hvars, pvars, vvars>>
vars == <<cvars, bvars, hvars, pvars, vvars, xvars>>

-----------------------------------------------------------------------------
(* Bounds *)

\* most entries of trace_database
MaxCorpus == 3
\* most NixBuilder calls in one run
MaxCalls == 3
\* most tasks added, and most results collected, in one run of the stateful test
MaxTasks == 2
MaxConverted == 3
\* most syscalls in an input trace
MaxLen == 3
\* most characters of a string value of a module key
MaxParams == 4
\* most task keywords beside the module key of a task
MaxKeywords == 2
\* largest Hole index compared
MaxIndex == 9
\* most characters in an input string of CanonicalForm
MaxText == 4
\* largest descriptor number the system assigns to an opened file
MaxFd == 6
\* punch_holes: `len(arg) > 5`, the longest string that stays a literal
LiteralLen == 5
\* replace_fds: `arg >= 3`, the first number that is a file descriptor
FirstFd == 3

-----------------------------------------------------------------------------
(* AnsibleToNixConverter *)

\* the confidence threshold of _syscall_based_conversion, in hundredths
Threshold == 60

\* scores the scoring method may return, in hundredths
Scores == {0, 55, 60, 75}

\* mark of an entry the loop did not score
NotScored == -1

\* what _extract_module_name can return: None, a key of MODULE_MAPPINGS, other modules
NoModule == "None"
MODULE_MAPPINGS == {"package"}
Modules == {NoModule, "package", "custom_a", "custom_b"}

\* keys of trace_database: <<prefix, rest>> stands for the string prefix:rest
DbKeys ==
    {<<"nix", "1">>, <<"nix", "2">>, <<"nix", "3">>, <<"custom_a", "{}">>,
     <<"package", "{}">>}

\* values of trace_database: a trace, or a value that is no trace (JSON null)
DbValues == {"trace", "null"}

Entries == [key : DbKeys, val : DbValues]

\* a dict holds a key once
UniqueKeys(db) == \A a, b \in 1..Len(db) : db[a].key = db[b].key => a = b

Databases ==
    {db \in UNION {[1..n -> Entries] : n \in 0..MaxCorpus} : UniqueKeys(db)}

\* nix_module.startswith('nix:')
StartsWithNix(key) == key[1] = "nix"

\* cache_key = f"{module}:{json.dumps(params, sort_keys=True)}"
CacheKey(m) == <<m, "{}">>

\* trace_database[cache_key] when cache_key in trace_database, else "absent"
Lookup(db, key) ==
    IF \E a \in 1..Len(db) : db[a].key = key
    THEN (CHOOSE e \in {db[a] : a \in 1..Len(db)} : e.key = key).val
    ELSE "absent"

\* _trace_ansible_module: the cached trace, or None
TraceAnsibleModule(db, m) ==
    IF Lookup(db, CacheKey(m)) = "absent" THEN "None" ELSE Lookup(db, CacheKey(m))

\* `not ansible_trace`: None and a null value are falsy
Falsy(t) == t \in {"None", "null"}

\* the scoring method raises on a corpus value that is no trace
CanScore(e) == e.val = "trace"

BetterLastWins(score, best) == score >= best

\* result.score > best_score
Better(score, best) == score > best

ConfidentAny(result, score) == result # 0

ConfidentAtThreshold(result, score) == result # 0 /\ score >= Threshold

\* best_match and best_match.score > 0.6
Confident(result, score) == result # 0 /\ score > Threshold

NoConfig == [kind |-> "None", from |-> 0, confidence |-> 0, fields |-> {}]

\* _direct_conversion: a config that comes from no corpus entry
DirectConfig ==
    [kind |-> "config", from |-> 0, confidence |-> 100, fields |-> {"module", "config"}]

GenerateWithoutConfig(result, score) ==
    [kind |-> "config", from |-> result, confidence |-> score,
     fields |-> {"module", "params", "confidence"}]

\* _generate_from_match: {'module': ..., 'config': ..., 'confidence': match.score}
GenerateFromMatch(result, score) ==
    [kind |-> "config", from |-> result, confidence |-> score,
     fields |-> {"module", "config", "confidence"}]

Raised == [kind |-> "raised", from |-> 0, confidence |-> 0, fields |-> {}]

Pending == [kind |-> "pending", from |-> 0, confidence |-> 0, fields |-> {}]

ResetSearch ==
    /\ i' = 1
    /\ best_score' = 0
    /\ best_result' = 0
    /\ scored' = <<>>
    /\ searched' = FALSE
    /\ generated' = FALSE

DirectIfUntraced(m) ==
    m \in MODULE_MAPPINGS /\ Falsy(TraceAnsibleModule(trace_database, m))

\* module_name in self.MODULE_MAPPINGS
Direct(m) == m \in MODULE_MAPPINGS

\* _convert_task up to the first corpus entry: _extract_module_name,
\* _direct_conversion, _trace_ansible_module and the test `not ansible_trace`
ConvertTask(m) ==
    /\ cpc \in {"idle", "done"}
    /\ module' = m
    /\ ResetSearch
    /\ IF m = NoModule
       THEN cpc' = "done" /\ outcome' = NoConfig
       ELSE IF Direct(m)
       THEN cpc' = "done" /\ outcome' = DirectConfig
       ELSE IF Falsy(TraceAnsibleModule(trace_database, m))
       THEN cpc' = "done" /\ outcome' = NoConfig
       ELSE cpc' = "search" /\ outcome' = Pending
    /\ UNCHANGED <<trace_database, nonconverter>>

\* one iteration of the loop of _find_best_nix_match
FindStep ==
    /\ cpc = "search"
    /\ i <= Len(trace_database)
    /\ LET e == trace_database[i] IN
       IF ~StartsWithNix(e.key)
       THEN /\ scored' = Append(scored, NotScored)
            /\ i' = i + 1
            /\ UNCHANGED <<cpc, best_score, best_result, outcome>>
       ELSE IF ~CanScore(e)
       THEN \* the exception leaves _find_best_nix_match, _syscall_based_conversion
            \* and _convert_task: none of them catches it
            /\ cpc' = "done"
            /\ outcome' = Raised
            /\ UNCHANGED <<i, scored, best_score, best_result>>
       ELSE \E s \in Scores :
            /\ scored' = Append(scored, s)
            /\ i' = i + 1
            /\ IF Better(s, best_score)
               THEN best_score' = s /\ best_result' = i
               ELSE UNCHANGED <<best_score, best_result>>
            /\ UNCHANGED <<cpc, outcome>>
    /\ UNCHANGED <<trace_database, module, searched, generated, nonconverter>>

\* the end of the loop: _find_best_nix_match returns best_result and
\* _syscall_based_conversion applies the threshold
Finish ==
    /\ cpc = "search"
    /\ i > Len(trace_database)
    /\ searched' = TRUE
    /\ cpc' = "done"
    /\ IF Confident(best_result, best_score)
       THEN /\ generated' = TRUE
            /\ outcome' = GenerateFromMatch(best_result, best_score)
       ELSE /\ generated' = FALSE
            /\ outcome' = NoConfig
    /\ UNCHANGED <<trace_database, module, i, best_score, best_result, scored, nonconverter>>

ConvNext ==
    \/ (\E m \in Modules : ConvertTask(m)) /\ UNCHANGED hvars
    \/ FindStep /\ UNCHANGED hvars
    \/ Finish /\ UNCHANGED hvars

-----------------------------------------------------------------------------
(* StatefulConversionTest: rules add_task and convert_task on one converter *)

\* `if result: self.converted.append(result)`: a config dict is never empty
Collect(n, result) == IF result.kind = "config" THEN n + 1 ELSE n

\* rule add_task: self.tasks.append(task)
AddTask(m) ==
    /\ cpc \in {"idle", "done"}
    /\ Len(tasks) < MaxTasks
    /\ tasks' = Append(tasks, m)
    /\ UNCHANGED <<converted, cvars, nonconverter>>

\* rule convert_task on a task drawn from the bundle: _convert_task(task),
\* and the result collected when the call returns at once
ConvertAdded(t) ==
    /\ converted < MaxConverted
    /\ ConvertTask(tasks[t])
    /\ converted' = IF cpc' = "done" THEN Collect(converted, outcome') ELSE converted
    /\ UNCHANGED tasks

\* the search of a convert_task rule goes on; an exception ends the rule
\* before the append
SearchAdded ==
    /\ FindStep
    /\ UNCHANGED hvars

\* the search of a convert_task rule returns and its result is collected
FinishAdded ==
    /\ Finish
    /\ converted' = Collect(converted, outcome')
    /\ UNCHANGED tasks

StatefulNext ==
    \/ \E m \in Modules \ {NoModule} : AddTask(m)
    \/ \E t \in 1..Len(tasks) : ConvertAdded(t)
    \/ SearchAdded
    \/ FinishAdded

-----------------------------------------------------------------------------
(* NixBuilder *)

\* callers of the one NixBuilder
Procs == {1, 2}

\* the fields of a NixDerivation the cache key is built from; args and env
\* are [] and {} throughout
DrvNames == {"a", "ab"}
DrvBuilders == {"c", "bc"}
Derivations == [name : DrvNames, builder : DrvBuilders]

NoDrv == [name |-> "", builder |-> ""]

\* content = f"{drv.name}{drv.builder}{drv.args}{drv.env}"; sha256 is taken
\* to be free of collisions, so the digest stands for the content
HashDerivation(d) == d.name \o d.builder \o "[]" \o "{}"

Keys == {HashDerivation(d) : d \in Derivations}

NoTrace == [kind |-> "none", name |-> "", builder |-> "", run |-> 0]

\* parse_string(trace_content, executable=drv.builder,
\* arguments={'derivation': drv.name}, ...) of the n-th successful build
BuiltTrace(d, n) == [kind |-> "trace", name |-> d.name, builder |-> d.builder, run |-> n]

\* return codes of an external process
ReturnCodes == {0, 1}

\* trace_nix_build: result.returncode != 0 raises
InstantiateOk(rc) == rc = 0

\* _parse_derivation: result.returncode != 0 raises
ParseOk(rc) == rc = 0

BuildOkAlways(rc) == TRUE

\* _build_with_trace: result.returncode != 0 raises
BuildOk(rc) == rc = 0

CacheHitNever(c, k) == FALSE

\* drv_hash in self.traced_derivations
CacheHit(c, k) == c[k] # NoTrace

CacheReservedOnMiss(c, k, t, stage) ==
    IF stage = "store" THEN [c EXCEPT ![k] = t]
    ELSE IF stage = "miss" THEN [c EXCEPT ![k] = [t EXCEPT !.kind = "partial"]]
    ELSE c

CacheWrittenBeforeCheck(c, k, t, stage) ==
    IF stage \in {"build", "store"} THEN [c EXCEPT ![k] = t] ELSE c

\* the cache after a stage of trace_derivation: written at
\* self.traced_derivations[drv_hash] = trace and nowhere else
TraceDerivationCache(c, k, t, stage) ==
    IF stage = "store" THEN [c EXCEPT ![k] = t] ELSE c

\* the states in which a call waits in subprocess.run
Waiting == {"instantiate", "show", "build"}

\* the states in which a call is over
Rest == {"idle", "done", "failed"}

\* a call ends with an exception raised inside its try statements; the
\* finally blocks have unlinked its files
Fail(p, e) ==
    /\ bpc' = [bpc EXCEPT ![p] = "failed"]
    /\ err' = [err EXCEPT ![p] = e]
    /\ trace' = [trace EXCEPT ![p] = NoTrace]
    /\ files' = [files EXCEPT ![p] = {}]

Begin(p, entry, pc, d, fs) ==
    /\ bpc[p] \in Rest
    /\ ncalls < MaxCalls
    /\ ncalls' = ncalls + 1
    /\ bpc' = [bpc EXCEPT ![p] = pc]
    /\ call' = [call EXCEPT ![p] = entry]
    /\ drv' = [drv EXCEPT ![p] = d]
    /\ trace' = [trace EXCEPT ![p] = NoTrace]
    /\ err' = [err EXCEPT ![p] = "none"]
    /\ lastrc' = [lastrc EXCEPT ![p] = 0]
    /\ hung' = [hung EXCEPT ![p] = FALSE]
    /\ files' = [files EXCEPT ![p] = fs]
    /\ UNCHANGED <<traced_derivations, produced, nonbuilder>>

\* trace_nix_build creates the expression file: NamedTemporaryFile(delete=False)
TraceNixBuild(p) == Begin(p, "trace_nix_build", "write", NoDrv, {"expr"})

\* f.write(expr) and the close at the end of the with block, before the try
\* statement: they succeed and nix-instantiate is run, or they raise (TypeError
\* for an expr that is no str, OSError from the write)
WriteExpr(p, written) ==
    /\ bpc[p] = "write"
    /\ IF written
       THEN /\ bpc' = [bpc EXCEPT ![p] = "instantiate"]
            /\ UNCHANGED <<trace, err>>
       ELSE /\ bpc' = [bpc EXCEPT ![p] = "failed"]
            /\ err' = [err EXCEPT ![p] = "write failed"]
            /\ trace' = [trace EXCEPT ![p] = NoTrace]
    /\ UNCHANGED <<traced_derivations, call, drv, lastrc, hung, files, produced,
                   ncalls, nonbuilder>>

\* trace_derivation(drv_path), called directly: runs nix show-derivation;
\* d is the derivation the path names
TraceDerivation(p, d) == Begin(p, "trace_derivation", "show", d, {})

\* nix-instantiate exits with rc and names derivation d
InstantiateExit(p, rc, d) ==
    /\ bpc[p] = "instantiate"
    /\ ~hung[p]
    /\ lastrc' = [lastrc EXCEPT ![p] = rc]
    /\ IF InstantiateOk(rc)
       THEN /\ bpc' = [bpc EXCEPT ![p] = "show"]
            /\ drv' = [drv EXCEPT ![p] = d]
            /\ UNCHANGED <<trace, err, files>>
       ELSE /\ Fail(p, "Failed to instantiate")
            /\ UNCHANGED drv
    /\ UNCHANGED <<traced_derivations, call, hung, produced, ncalls, nonbuilder>>

\* nix show-derivation exits with rc; json tells whether its output parses.
\* On success trace_derivation goes on to the cache lookup and, on a miss,
\* _build_with_trace creates the strace file and runs the traced nix-build.
ShowExit(p, rc, json) ==
    /\ bpc[p] = "show"
    /\ ~hung[p]
    /\ lastrc' = [lastrc EXCEPT ![p] = rc]
    /\ LET k == HashDerivation(drv[p]) IN
       IF ~ParseOk(rc)
       THEN /\ Fail(p, "Failed to parse derivation")
            /\ UNCHANGED traced_derivations
       ELSE IF ~json
       THEN /\ Fail(p, "JSONDecodeError")
            /\ UNCHANGED traced_derivations
       ELSE IF CacheHit(traced_derivations, k)
       THEN /\ bpc' = [bpc EXCEPT ![p] = "done"]
            /\ trace' = [trace EXCEPT ![p] = traced_derivations[k]]
            /\ files' = [files EXCEPT ![p] = {}]
            /\ UNCHANGED <<err, traced_derivations>>
       ELSE /\ bpc' = [bpc EXCEPT ![p] = "build"]
            /\ files' = [files EXCEPT ![p] = files[p] \cup {"strace"}]
            /\ traced_derivations' =
                   TraceDerivationCache(traced_derivations, k, trace[p], "miss")
            /\ UNCHANGED <<trace, err>>
    /\ UNCHANGED <<call, drv, hung, produced, ncalls, nonbuilder>>

\* the traced nix-build exits with rc; _build_with_trace parses the strace
\* file, unlinks it and returns the trace
BuildExit(p, rc) ==
    /\ bpc[p] = "build"
    /\ ~hung[p]
    /\ lastrc' = [lastrc EXCEPT ![p] = rc]
    /\ LET k == HashDerivation(drv[p])
           t == BuiltTrace(drv[p], Cardinality(produced) + 1) IN
       /\ traced_derivations' = TraceDerivationCache(traced_derivations, k, t, "build")
       /\ IF BuildOk(rc)
          THEN /\ bpc' = [bpc EXCEPT ![p] = "store"]
               /\ trace' = [trace EXCEPT ![p] = t]
               /\ produced' = IF rc = 0 THEN produced \cup {t} ELSE produced
               /\ files' = [files EXCEPT ![p] = files[p] \ {"strace"}]
               /\ UNCHANGED err
          ELSE /\ Fail(p, "Build failed")
               /\ UNCHANGED produced
    /\ UNCHANGED <<call, drv, hung, ncalls, nonbuilder>>

\* self.traced_derivations[drv_hash] = trace; return trace
Store(p) ==
    /\ bpc[p] = "store"
    /\ traced_derivations' =
           TraceDerivationCache(traced_derivations, HashDerivation(drv[p]), trace[p], "store")
    /\ bpc' = [bpc EXCEPT ![p] = "done"]
    /\ files' = [files EXCEPT ![p] = {}]
    /\ UNCHANGED <<call, drv, trace, err, lastrc, hung, produced, ncalls, nonbuilder>>

\* the external process the call waits for never exits; subprocess.run is
\* given no timeout
ExternalNeverExits(p) ==
    /\ bpc[p] \in Waiting
    /\ ~hung[p]
    /\ hung' = [hung EXCEPT ![p] = TRUE]
    /\ UNCHANGED <<traced_derivations, bpc, call, drv, trace, err, lastrc, files,
                   produced, ncalls, nonbuilder>>

\* the caller interrupts the call while it waits in subprocess.run
\* (KeyboardInterrupt): the exception unwinds through the finally blocks
Interrupt(p) ==
    /\ bpc[p] \in Waiting
    /\ Fail(p, "KeyboardInterrupt")
    /\ UNCHANGED <<traced_derivations, call, drv, lastrc, hung, produced, ncalls, nonbuilder>>

\* the steps the builder's own code takes once an external process has exited
BuilderStep(p) ==
    \/ \E written \in BOOLEAN : WriteExpr(p, written)
    \/ \E rc \in ReturnCodes, d \in Derivations : InstantiateExit(p, rc, d)
    \/ \E rc \in ReturnCodes, json \in BOOLEAN : ShowExit(p, rc, json)
    \/ \E rc \in ReturnCodes : BuildExit(p, rc)
    \/ Store(p)

BuilderCall(p) ==
    \/ TraceNixBuild(p)
    \/ \E d \in Derivations : TraceDerivation(p, d)

Environment(p) ==
    \/ ExternalNeverExits(p)
    \/ Interrupt(p)

\* calls of different callers interleave
BuildNext == \E p \in Procs : BuilderCall(p) \/ BuilderStep(p) \/ Environment(p)

\* one call at a time
BuildSeqNext ==
    \E p \in Procs :
        \/ (\A q \in Procs : bpc[q] \in Rest) /\ BuilderCall(p)
        \/ BuilderStep(p)
        \/ Environment(p)

-----------------------------------------------------------------------------
(* Trace comparison: the scoring functions of test_benchmarks.py *)

\* a float score as the fraction the code divides out
Ratio(n, d) == [num |-> n, den |-> d]
ZeroDivisionError == [raised |-> "ZeroDivisionError"]
NoResult == [raised |-> "nothing"]

\* Python's n / d
Divide(n, d) == IF d = 0 THEN ZeroDivisionError ELSE Ratio(n, d)

\* float comparison of two scores
ScoreEq(a, b) == a.num * b.den = b.num * a.den
ScoreLeq(a, b) == a.num * b.den <= b.num * a.den

Max(a, b) == IF a >= b THEN a ELSE b
Min(a, b) == IF a <= b THEN a ELSE b

SyscallNames == {"open", "read", "close"}
Syscall(name, arguments) == [name |-> name, arguments |-> arguments]
SeqsUpTo(S, n) == UNION {[1..k -> S] : k \in 0..n}

\* set(s.name for s in trace.syscalls)
NameSet(t) == {t[k].name : k \in 1..Len(t)}

JaccardOverFirst(t1, t2) ==
    LET set1 == NameSet(t1)
        set2 == NameSet(t2)
    IN  IF set1 = {} /\ set2 = {} THEN Ratio(1, 1)
        ELSE IF set1 # {}
             THEN Ratio(Cardinality(set1 \cap set2), Cardinality(set1))
             ELSE Ratio(0, 1)

JaccardNoEmptyCase(t1, t2) ==
    LET union == Cardinality(NameSet(t1) \cup NameSet(t2))
    IN  IF union > 0
        THEN Ratio(Cardinality(NameSet(t1) \cap NameSet(t2)), union)
        ELSE Ratio(0, 1)

\* jaccard_score(trace1, trace2)
jaccard_score(t1, t2) ==
    LET set1 == NameSet(t1)
        set2 == NameSet(t2)
    IN  IF set1 = {} /\ set2 = {} THEN Ratio(1, 1)
        ELSE LET intersection == Cardinality(set1 \cap set2)
                 union == Cardinality(set1 \cup set2)
             IN  IF union > 0 THEN Ratio(intersection, union) ELSE Ratio(0, 1)

\* the inner loop of maximum_matching: the first j not in used_targets whose
\* syscall has the name of s1 (positions from 1; 0 when there is none)
RECURSIVE FirstFree(_, _, _, _)
FirstFree(s1, t2, used_targets, j) ==
    IF j > Len(t2) THEN 0
    ELSE IF j \notin used_targets /\ s1.name = t2[j].name THEN j
    ELSE FirstFree(s1, t2, used_targets, j + 1)

\* the outer loop of maximum_matching, from position pos on: the list `matches`
\* of (i, j) pairs, numbered from 0 as enumerate() numbers them
RECURSIVE Matches(_, _, _, _, _)
Matches(t1, t2, pos, matches, used_targets) ==
    IF pos > Len(t1) THEN matches
    ELSE LET j == FirstFree(t1[pos], t2, used_targets, 1)
         IN  IF j = 0
             THEN Matches(t1, t2, pos + 1, matches, used_targets)
             ELSE Matches(t1, t2, pos + 1, Append(matches, <<pos - 1, j - 1>>),
                          used_targets \cup {j})

\* maximum_matching(trace1, trace2): the matches and the score returned
maximum_matching(t1, t2) ==
    LET matches == Matches(t1, t2, 1, <<>>, {})
    IN  [mapping |-> matches,
         score |-> Divide(Len(matches), Max(Len(t1), Len(t2)))]

\* the benchmark applies jaccard_score to a pair of traces
ScoreJaccard ==
    /\ ppc = "input"
    /\ returned' = jaccard_score(trace1, trace2)
    /\ ppc' = "jaccard"
    /\ UNCHANGED <<inputs, rerun, noncomparison>>

\* the benchmark applies maximum_matching to a pair of traces
ScoreMatching ==
    /\ ppc = "input"
    /\ returned' = maximum_matching(trace1, trace2)
    /\ ppc' = "matched"
    /\ UNCHANGED <<inputs, rerun, noncomparison>>

ScoreNext == ScoreJaccard \/ ScoreMatching

-----------------------------------------------------------------------------
(* Trace preprocessing: punch_holes and replace_fds of test_benchmarks.py *)

\* an argument is a Python int or a Python str; a str is its characters
IntArg(n) == [int |-> n]
StrArg(chars) == [str |-> chars]
IsInt(arg) == DOMAIN arg = {"int"}
IsStr(arg) == DOMAIN arg = {"str"}

\* str(i) for a one-digit i
Digits(n) == <<ToString(n)>>
\* f"<HOLE_{i}>"
HoleText(n) == <<"<", "H", "O", "L", "E", "_">> \o Digits(n) \o <<">">>
\* f"<FD_{next_fd}>"
FdText(n) == <<"<", "F", "D", "_">> \o Digits(n) \o <<">">>

\* the arguments SyscallFixtures gives open, read and close
O_RDONLY == StrArg(<<"O", "_", "R", "D", "O", "N", "L", "Y">>)
ShortPath == StrArg(<<"/", "a">>)
LongPath == StrArg(<<"/", "t", "m", "p", "/", "f">>)
create_open_syscall(path) == Syscall("open", <<path, O_RDONLY>>)
create_read_syscall(fd, size) == Syscall("read", <<IntArg(fd), IntArg(size)>>)
create_close_syscall(fd) == Syscall("close", <<IntArg(fd)>>)

\* the loop body of punch_holes on the argument at index n (from 0)
PunchArg(arg, n) ==
    IF IsStr(arg) /\ Len(arg.str) > LiteralLen THEN StrArg(HoleText(n)) ELSE arg

\* punch_holes: the list `holed` of argument lists
punch_holes(t) ==
    [k \in 1..Len(t) |->
        [a \in 1..Len(t[k].arguments) |-> PunchArg(t[k].arguments[a], a - 1)]]

\* position of fd in the order fd_map got its keys (0 when absent)
RECURSIVE FdIndex(_, _, _)
FdIndex(fd_map, fd, k) ==
    IF k > Len(fd_map) THEN 0
    ELSE IF fd_map[k] = fd THEN k
    ELSE FdIndex(fd_map, fd, k + 1)

ReplaceNothing(arg) == FALSE
\* `isinstance(arg, int) and arg >= 3`
IsFileDescriptor(arg) == IsInt(arg) /\ arg.int >= FirstFd

\* the loops of replace_fds from argument a of syscall k on; fd_map is the
\* sequence of descriptors in the order they were first seen, so that
\* fd_map[arg] is "<FD_n>" with n its position from 0
RECURSIVE ReplaceFrom(_, _, _, _, _, _)
ReplaceFrom(t, k, a, fd_map, args, normalized) ==
    IF k > Len(t) THEN normalized
    ELSE IF a > Len(t[k].arguments)
         THEN ReplaceFrom(t, k + 1, 1, fd_map, <<>>, Append(normalized, args))
    ELSE LET arg == t[k].arguments[a]
         IN  IF IsFileDescriptor(arg)
             THEN LET known == FdIndex(fd_map, arg.int, 1)
                      map == IF known = 0 THEN Append(fd_map, arg.int) ELSE fd_map
                      n == IF known = 0 THEN Len(fd_map) ELSE known - 1
                  IN  ReplaceFrom(t, k, a + 1, map,
                                  Append(args, StrArg(FdText(n))), normalized)
             ELSE ReplaceFrom(t, k, a + 1, fd_map, Append(args, arg), normalized)

\* replace_fds: the list `normalized` of argument lists
replace_fds(t) == ReplaceFrom(t, 1, 1, <<>>, <<>>, <<>>)

\* the trace a stage hands to the next one: the same syscalls with the
\* argument lists the stage returned
WithArguments(t, lists) == [k \in 1..Len(t) |-> Syscall(t[k].name, lists[k])]

\* PunchHoles, then ReplaceFileDescriptors
Pipeline(t) ==
    LET holed == WithArguments(t, punch_holes(t))
    IN  WithArguments(holed, replace_fds(holed))

\* the syscalls the preprocessing benchmarks build
PipelineSyscalls ==
    {create_open_syscall(ShortPath), create_open_syscall(LongPath),
     create_read_syscall(3, 1024), create_read_syscall(4, 1024),
     create_close_syscall(3), create_close_syscall(2)}

\* both stages run on the input trace
RunPipeline ==
    /\ ppc = "input"
    /\ returned' = Pipeline(trace1)
    /\ ppc' = "once"
    /\ UNCHANGED <<inputs, rerun, noncomparison>>

\* both stages run again on what they returned
RerunPipeline ==
    /\ ppc = "once"
    /\ rerun' = Pipeline(returned)
    /\ ppc' = "twice"
    /\ UNCHANGED <<inputs, returned, noncomparison>>

PipelineNext == RunPipeline \/ RerunPipeline

-----------------------------------------------------------------------------
(* Hole and CanonicalForm, which the tests import from lib.strace *)

\* Hole(index=n): a placeholder that carries an index and no value
Hole(n) == [index |-> n, value |-> "None"]

HoleValueEq(h1, h2) == h1.value = h2.value
\* Hole.__eq__: two holes are equal iff their indices are equal
HoleEq(h1, h2) == h1.index = h2.index

\* hole1 == hole2 for two holes built from the indices
CompareHoles ==
    /\ ppc = "input"
    /\ returned' = HoleEq(Hole(idx1), Hole(idx2))
    /\ ppc' = "compared"
    /\ UNCHANGED <<inputs, rerun, noncomparison>>

HoleNext == CompareHoles

\* the characters the input strings are made of
Alphabet == {"/", ".", "~", "a", " "}
IsSpace(c) == c \in {" ", "\t", "\n"}
Last(q) == q[Len(q)]
Front(q) == SubSeq(q, 1, Len(q) - 1)

\* runs of whitespace collapsed to one space, from character k on
RECURSIVE Collapse(_, _, _)
Collapse(chars, k, out) ==
    IF k > Len(chars) THEN out
    ELSE IF ~IsSpace(chars[k]) THEN Collapse(chars, k + 1, Append(out, chars[k]))
    ELSE IF out # <<>> /\ Last(out) = " " THEN Collapse(chars, k + 1, out)
    ELSE Collapse(chars, k + 1, Append(out, " "))

\* leading and trailing whitespace trimmed, of a collapsed string
Strip(chars) ==
    LET lead == IF chars # <<>> /\ chars[1] = " " THEN Tail(chars) ELSE chars
    IN  IF lead # <<>> /\ Last(lead) = " " THEN Front(lead) ELSE lead

CollapseOnly(chars) == Collapse(chars, 1, <<>>)
\* CanonicalForm.normalize_whitespace
normalize_whitespace(chars) == Strip(Collapse(chars, 1, <<>>))

\* the segments between the separators, from character k on
RECURSIVE Split(_, _, _, _)
Split(chars, k, seg, segs) ==
    IF k > Len(chars) THEN Append(segs, seg)
    ELSE IF chars[k] = "/" THEN Split(chars, k + 1, <<>>, Append(segs, seg))
    ELSE Split(chars, k + 1, Append(seg, chars[k]), segs)

\* `.` and empty segments dropped, `..` resolved against what precedes it
RECURSIVE Resolve(_, _, _)
Resolve(segs, k, out) ==
    IF k > Len(segs) THEN out
    ELSE IF segs[k] \in {<<>>, <<".">>} THEN Resolve(segs, k + 1, out)
    ELSE IF segs[k] = <<".", ".">>
         THEN Resolve(segs, k + 1, IF out = <<>> THEN out ELSE Front(out))
    ELSE Resolve(segs, k + 1, Append(out, segs[k]))

RECURSIVE Join(_, _)
Join(segs, k) ==
    IF k > Len(segs) THEN <<>> ELSE <<"/">> \o segs[k] \o Join(segs, k + 1)

\* the home directory and the working directory, as segments
Home == <<<<"h">>>>
Cwd == <<<<"w">>>>

\* the segments of the absolute path a string names
Anchored(chars) ==
    LET segs == Split(chars, 1, <<>>, <<>>)
    IN  IF chars # <<>> /\ chars[1] = "/" THEN segs
        ELSE IF segs[1] = <<"~">> THEN Home \o Tail(segs)
        ELSE Cwd \o segs

JoinUnresolved(chars) ==
    LET segs == Anchored(chars)
    IN  IF segs = <<>> THEN <<"/">> ELSE Join(segs, 1)

\* CanonicalForm.canonicalize_path
canonicalize_path(chars) ==
    LET segs == Resolve(Anchored(chars), 1, <<>>)
    IN  IF segs = <<>> THEN <<"/">> ELSE Join(segs, 1)

\* CanonicalForm on one string: a path-like string as a path, any other as text
IsPathLike(chars) == chars # <<>> /\ chars[1] \in {"/", "~", "."}
canonicalize(chars) ==
    IF IsPathLike(chars) THEN canonicalize_path(chars) ELSE normalize_whitespace(chars)

\* canonicalize_path(x), then canonicalize_path of the result
CanonicalizePath ==
    /\ ppc = "input"
    /\ returned' = canonicalize_path(text)
    /\ rerun' = canonicalize_path(returned')
    /\ ppc' = "path"
    /\ UNCHANGED <<inputs, noncomparison>>

\* normalize_whitespace(x), then normalize_whitespace of the result
NormalizeWhitespace ==
    /\ ppc = "input"
    /\ returned' = normalize_whitespace(text)
    /\ rerun' = normalize_whitespace(returned')
    /\ ppc' = "text"
    /\ UNCHANGED <<inputs, noncomparison>>

CanonicalNext == CanonicalizePath \/ NormalizeWhitespace

-----------------------------------------------------------------------------
(* The equality strategies, which the tests import from
   lib.strace.comparison.syscall_equality *)

\* a syscall with all three fields, and two values that are no syscall
FullSyscall(name, arguments, return_value) ==
    [name |-> name, arguments |-> arguments, return_value |-> return_value]
NotSyscall == [other |-> "None"]
IsSyscall(x) == DOMAIN x = {"name", "arguments", "return_value"}
\* what a call gives back: Python's True or False, or the exception raised
Answer(b) == IF b THEN "True" ELSE "False"
AttributeError == "AttributeError"

\* the operands: syscalls that differ in each field, and non-syscalls
OperandArguments ==
    {<<StrArg(<<"/", "w", "/", "a">>)>>, <<StrArg(<<".", "/", "a">>)>>,
     <<StrArg(<<"a", " ", " ", "a">>)>>, <<IntArg(3)>>, <<Hole(0)>>, <<Hole(1)>>}
Operands ==
    {FullSyscall(n, args, IntArg(r)) :
        n \in {"open", "close"}, args \in OperandArguments, r \in {3, 4}}
    \cup {NotSyscall, [other |-> "str"]}

\* the canonical form of a syscall's comparable fields
Canonical(s) ==
    FullSyscall(s.name,
                [k \in 1..Len(s.arguments) |->
                    IF IsStr(s.arguments[k])
                    THEN StrArg(canonicalize(s.arguments[k].str))
                    ELSE s.arguments[k]],
                s.return_value)

\* NameEquality: match iff the names are equal
NameEquality(x, y) == IsSyscall(x) /\ IsSyscall(y) /\ x.name = y.name

\* StrictEquality: name, arguments element-wise and return value are equal
StrictEquality(x, y) ==
    /\ IsSyscall(x) /\ IsSyscall(y)
    /\ x.name = y.name
    /\ x.arguments = y.arguments
    /\ x.return_value = y.return_value

\* CanonicalEquality: StrictEquality on the canonical forms
CanonicalEquality(x, y) ==
    /\ IsSyscall(x) /\ IsSyscall(y)
    /\ StrictEquality(Canonical(x), Canonical(y))

EqualityStrategies == {"NameEquality", "StrictEquality", "CanonicalEquality"}

ApplyTrustingSecond(strategy, x, y) ==
    IF ~IsSyscall(x) THEN Answer(FALSE)
    ELSE IF ~IsSyscall(y) THEN AttributeError
    ELSE CASE strategy = "NameEquality" -> Answer(NameEquality(x, y))
           [] strategy = "StrictEquality" -> Answer(StrictEquality(x, y))
           [] strategy = "CanonicalEquality" -> Answer(CanonicalEquality(x, y))

\* equality(x, y) for the strategy object named
Apply(strategy, x, y) ==
    CASE strategy = "NameEquality" -> Answer(NameEquality(x, y))
      [] strategy = "StrictEquality" -> Answer(StrictEquality(x, y))
      [] strategy = "CanonicalEquality" -> Answer(CanonicalEquality(x, y))

\* one strategy called on the two operands
Compare(strategy) ==
    /\ ppc = "input"
    /\ returned' = Apply(strategy, lhs, rhs)
    /\ ppc' = strategy
    /\ UNCHANGED <<inputs, rerun, noncomparison>>

EqualityNext == \E strategy \in EqualityStrategies : Compare(strategy)

-----------------------------------------------------------------------------
(* End-to-end scenario 1: ReplaceFileDescriptors, then the matching with
   CanonicalEquality and a pinned Hole *)

\* a pinned position (syscall k, argument a, both from 1) holds Hole(a - 1)
Pin(t, pinned) ==
    [k \in 1..Len(t) |->
        Syscall(t[k].name,
                [a \in 1..Len(t[k].arguments) |->
                    IF <<k, a>> \in pinned THEN Hole(a - 1) ELSE t[k].arguments[a]])]

\* CanonicalEquality: StrictEquality on the name and the canonical arguments;
\* two syscalls are equal iff their identities are
CanonicalIdentity(s) ==
    <<s.name,
      [a \in 1..Len(s.arguments) |->
          IF IsStr(s.arguments[a])
          THEN StrArg(canonicalize(s.arguments[a].str))
          ELSE s.arguments[a]]>>

\* the matching run with CanonicalEquality in place of the comparison of names
CanonicalMatching(t1, t2, pinned) ==
    LET identified(t) ==
            [k \in 1..Len(t) |-> Syscall(CanonicalIdentity(Pin(t, pinned)[k]), <<>>)]
    IN  maximum_matching(identified(t1), identified(t2))

\* the paths of the scenario
ScenarioPaths == {StrArg(<<"/", c>>) : c \in {"a", "b", "c", "d"}}
\* [open(path), read(fd), close(fd)]
OpenReadClose(path, fd) ==
    <<Syscall("open", <<path>>), Syscall("read", <<IntArg(fd)>>),
      Syscall("close", <<IntArg(fd)>>)>>
\* the path argument of the open, syscall 0 argument 0
PathPinned == {<<1, 1>>}

\* ReplaceFileDescriptors on both traces
NormalizeBoth ==
    /\ ppc = "input"
    /\ returned' = <<WithArguments(trace1, replace_fds(trace1)),
                     WithArguments(trace2, replace_fds(trace2))>>
    /\ ppc' = "normalized"
    /\ UNCHANGED <<inputs, rerun, noncomparison>>

\* MaximumCardinalityMatching on the two normalized traces
MatchNormalized ==
    /\ ppc = "normalized"
    /\ rerun' = CanonicalMatching(returned[1], returned[2], PathPinned)
    /\ ppc' = "scenario matched"
    /\ UNCHANGED <<inputs, returned, noncomparison>>

ScenarioNext == NormalizeBoth \/ MatchNormalized

-----------------------------------------------------------------------------
(* AnsibleNixValidator: _compare_states *)

\* a dict with keys among K and values among V
Dicts(K, V) == UNION {[D -> V] : D \in SUBSET K}

\* what a container can hold
PackageNames == {"p", "q"}
ServiceNames == {"s"}
ServiceStatus == {"active", "inactive"}
UserNames == {"u", "root"}
UserInfos == {[uid |-> "0"], [uid |-> "1"]}
FilePaths == {"f"}
FileHashes == {"h1", "h2"}
SystemUsers == {"root", "nobody", "daemon"}

\* SystemState, with the fields _compare_states reads
SystemStates ==
    [packages : SUBSET PackageNames,
     services : Dicts(ServiceNames, ServiceStatus),
     users : Dicts(UserNames, UserInfos),
     files : Dicts(FilePaths, FileHashes)]
NoState == [packages |-> {}, services |-> <<>>, users |-> <<>>, files |-> <<>>]

\* the weights of the four scores, in tenths, and the success threshold
PackageWeight == 3
ServiceWeight == 3
UserWeight == 2
FileWeight == 2
SuccessThreshold == Ratio(8, 10)

\* the keys of d1 that d2 maps to the same value
Matching(d1, d2) == {k \in DOMAIN d1 : k \in DOMAIN d2 /\ d2[k] = d1[k]}
Differing(d1, d2) == {k \in DOMAIN d1 : k \in DOMAIN d2 /\ d2[k] # d1[k]}
Missing(d1, d2) == {k \in DOMAIN d1 : k \notin DOMAIN d2}

\* sum(score * weight for ...) of four scores n[k] / d[k], weights in tenths
WeightedTotal(n, d) ==
    Ratio(  PackageWeight * n[1] * d[2] * d[3] * d[4]
          + ServiceWeight * n[2] * d[1] * d[3] * d[4]
          + UserWeight * n[3] * d[1] * d[2] * d[4]
          + FileWeight * n[4] * d[1] * d[2] * d[3],
          10 * d[1] * d[2] * d[3] * d[4])

SucceedsWithoutThreshold(total_score, errors) == errors = {}
\* `success = total_score >= 0.8 and len(errors) == 0`
Succeeds(total_score, errors) ==
    ScoreLeq(SuccessThreshold, total_score) /\ errors = {}

\* max(len(ansible_state.packages.union(nix_state.packages)), 1)
UnionSize(a, n) == Max(Cardinality(a.packages \cup n.packages), 1)

\* _compare_states(ansible_state, nix_state)
compare_states(a, n) ==
    LET pkg_diff == (a.packages \ n.packages) \cup (n.packages \ a.packages)
        differences ==
            {<<"Package", "", "differences">> : x \in IF pkg_diff # {} THEN {1} ELSE {}}
            \cup {<<"Service", k, "differs">> : k \in Differing(a.services, n.services)}
            \cup {<<"Service", k, "missing in Nix">> : k \in Missing(a.services, n.services)}
            \cup {<<"User", k, "differs">> : k \in Differing(a.users, n.users)}
            \cup {<<"User", k, "missing in Nix">> :
                        k \in Missing(a.users, n.users) \ SystemUsers}
            \cup {<<"File", k, "content differs">> : k \in Differing(a.files, n.files)}
        warnings == {<<"File", k, "missing in Nix">> : k \in Missing(a.files, n.files)}
        errors == {}
        num == <<Cardinality(a.packages \cap n.packages),
                 Cardinality(Matching(a.services, n.services)),
                 Cardinality(Matching(a.users, n.users)),
                 Cardinality(Matching(a.files, n.files))>>
        den == <<UnionSize(a, n),
                 Max(Cardinality(DOMAIN a.services), 1),
                 Max(Cardinality(DOMAIN a.users), 1),
                 Max(Cardinality(DOMAIN a.files), 1)>>
        total_score == WeightedTotal(num, den)
    IN  [success |-> Succeeds(total_score, errors),
         score |-> total_score,
         differences |-> differences,
         warnings |-> warnings,
         errors |-> errors]

NoValidation == [raised |-> "nothing"]

\* _compare_states called on two captured states
CompareStates ==
    /\ vpc = "captured"
    /\ validation' = compare_states(ansible_state, nix_state)
    /\ vpc' = "compared"
    /\ UNCHANGED <<containers, ansible_state, nix_state, verr, nonvalidator>>

CompareNext == CompareStates

-----------------------------------------------------------------------------
(* AnsibleNixValidator: validate_conversion *)

\* the states _capture_container_state returns in the validation runs
CapturedStates == {st \in SystemStates : st.users = <<>> /\ st.files = <<>>}

\* where the call waits for an external command or for the clock
OutsideTry == {"up", "sleep"}
InsideTry == {"ansible", "nix"}
InFinally == {"compared", "stopping"}

\* validate_conversion is called: _start_containers runs `docker-compose up -d`
ValidateConversion ==
    /\ vpc = "idle"
    /\ vpc' = "up"
    /\ UNCHANGED <<containers, ansible_state, nix_state, validation, verr, nonvalidator>>

\* `docker-compose up -d` exits; check=True raises on a nonzero code, before
\* the try block is entered
UpExit(rc) ==
    /\ vpc = "up"
    /\ IF rc = 0
       THEN /\ containers' = "up"
            /\ vpc' = "sleep"
            /\ verr' = verr
       ELSE /\ containers' \in {"down", "partial"}
            /\ vpc' = "raised"
            /\ verr' = "CalledProcessError"
    /\ UNCHANGED <<ansible_state, nix_state, validation, nonvalidator>>

\* time.sleep(5) of _start_containers is over; the try block is entered
SleepOver ==
    /\ vpc = "sleep"
    /\ vpc' = "ansible"
    /\ UNCHANGED <<containers, ansible_state, nix_state, validation, verr, nonvalidator>>

\* _run_ansible_playbook: install and copy raise on failure (check=True), the
\* playbook's own exit code is only logged, then the state is captured
RunAnsiblePlaybook(ok, st) ==
    /\ vpc = "ansible"
    /\ IF ok
       THEN /\ ansible_state' = st
            /\ vpc' = "nix"
            /\ verr' = verr
       ELSE /\ ansible_state' = ansible_state
            /\ vpc' = "stopping"
            /\ verr' = "CalledProcessError"
    /\ UNCHANGED <<containers, nix_state, validation, nonvalidator>>

\* _run_nix_config: the copy raises on failure, the build's exit code is only
\* logged, then the state is captured
RunNixConfig(ok, st) ==
    /\ vpc = "nix"
    /\ IF ok
       THEN /\ nix_state' = st
            /\ vpc' = "captured"
            /\ verr' = verr
       ELSE /\ nix_state' = nix_state
            /\ vpc' = "stopping"
            /\ verr' = "CalledProcessError"
    /\ UNCHANGED <<containers, ansible_state, validation, nonvalidator>>

\* finally: _stop_containers runs `docker-compose down` with check=True; then
\* the result is returned or the exception in flight goes on
DownExit(rc) ==
    /\ vpc \in InFinally
    /\ IF rc = 0
       THEN /\ containers' = "down"
            /\ vpc' = IF verr = "" THEN "returned" ELSE "raised"
            /\ verr' = verr
       ELSE /\ containers' = containers
            /\ vpc' = "raised"
            /\ verr' = "CalledProcessError"
    /\ UNCHANGED <<ansible_state, nix_state, validation, nonvalidator>>

\* KeyboardInterrupt while the call waits: outside the try block it leaves
\* the call at once, inside it the finally clause runs first, and in the
\* finally clause it ends `docker-compose down` early
ValidatorInterrupt ==
    /\ vpc \in OutsideTry \cup InsideTry \cup InFinally
    /\ verr' = "KeyboardInterrupt"
    /\ vpc' = IF vpc \in InsideTry THEN "stopping" ELSE "raised"
    /\ containers' \in IF vpc = "up" THEN {"down", "partial", "up"} ELSE {containers}
    /\ UNCHANGED <<ansible_state, nix_state, validation, nonvalidator>>

ValidateNext ==
    \/ ValidateConversion
    \/ \E rc \in ReturnCodes : UpExit(rc)
    \/ SleepOver
    \/ \E ok \in BOOLEAN, st \in CapturedStates : RunAnsiblePlaybook(ok, st)
    \/ \E ok \in BOOLEAN, st \in CapturedStates : RunNixConfig(ok, st)
    \/ CompareStates
    \/ \E rc \in ReturnCodes : DownExit(rc)
    \/ ValidatorInterrupt

-----------------------------------------------------------------------------
(* AnsibleToNixConverter._extract_module_name and _extract_parameters *)

\* the keys _extract_module_name passes over
TaskKeywords == {"name", "register", "when", "with_items", "loop", "vars", "tags"}

\* module keys of the tests' tasks
ModuleKeys == {"package", "apt"}

\* characters of a string value: a letter, the separator and whitespace
ParamChars == {"a", "=", " "}

\* the value of a task key: a dict, a string (its characters) or None
DictValue(d) == [dict |-> d]
NoneValue == [none |-> TRUE]
IsDict(v) == DOMAIN v = {"dict"}

\* {} and the dict literal {key: value, ...}, keys and values as characters
EmptyDict == <<>>
SetItem(d, k, v) == [x \in DOMAIN d \cup {k} |-> IF x = k THEN v ELSE d[x]]

\* parameter dicts of the tasks: {}, {a: a}, {a: a, aa: ''}
ParamDicts ==
    {EmptyDict,
     SetItem(EmptyDict, <<"a">>, <<"a">>),
     SetItem(SetItem(EmptyDict, <<"a">>, <<"a">>), <<"a", "a">>, <<>>)}

ModuleValues ==
    {DictValue(d) : d \in ParamDicts}
        \cup {StrArg(s) : s \in SeqsUpTo(ParamChars, MaxParams)}
        \cup {NoneValue}

\* a task: its items in insertion order, one module key among task keywords
Item(k, v) == [key |-> k, value |-> v]
KeywordItems == {Item(k, NoneValue) : k \in TaskKeywords}
ModuleItems == {Item(k, v) : k \in ModuleKeys, v \in {NoneValue}}
DistinctKeys(t) == \A a, b \in 1..Len(t) : t[a].key = t[b].key => a = b
KeyOrders ==
    {t \in SeqsUpTo(KeywordItems \cup ModuleItems, MaxKeywords + 1) :
        /\ DistinctKeys(t)
        /\ Cardinality({a \in 1..Len(t) : t[a].key \in ModuleKeys}) = 1}
WithValue(t, v) ==
    [a \in 1..Len(t) |-> IF t[a].key \in ModuleKeys THEN Item(t[a].key, v) ELSE t[a]]

\* `key in task` and task[key]
InTask(t, k) == \E a \in 1..Len(t) : t[a].key = k
GetItem(t, k) == (CHOOSE it \in {t[a] : a \in 1..Len(t)} : it.key = k).value

\* for key in task: if key not in [...]: return key; return None
RECURSIVE extract_module_name(_)
extract_module_name(t) ==
    IF t = <<>> THEN NoModule
    ELSE IF Head(t).key \notin TaskKeywords THEN Head(t).key
    ELSE extract_module_name(Tail(t))

\* params.split(): the runs of characters that are not whitespace
RECURSIVE SplitWords(_, _, _)
SplitWords(chars, word, words) ==
    IF chars = <<>>
    THEN IF word = <<>> THEN words ELSE Append(words, word)
    ELSE IF IsSpace(Head(chars))
    THEN SplitWords(Tail(chars), <<>>,
                    IF word = <<>> THEN words ELSE Append(words, word))
    ELSE SplitWords(Tail(chars), Append(word, Head(chars)), words)

\* '=' in item
HasEquals(item) == \E k \in 1..Len(item) : item[k] = "="

\* item.split('=', 1)
FirstEquals(item) ==
    CHOOSE k \in 1..Len(item) :
        item[k] = "=" /\ \A j \in 1..(k - 1) : item[j] # "="
SplitLater(item) ==
    LET k == CHOOSE j \in 1..Len(item) :
                 item[j] = "=" /\ \A m \in (j + 1)..Len(item) : item[m] # "="
    IN  <<SubSeq(item, 1, k - 1), SubSeq(item, k + 1, Len(item))>>
SplitOnce(item) ==
    <<SubSeq(item, 1, FirstEquals(item) - 1),
      SubSeq(item, FirstEquals(item) + 1, Len(item))>>

\* for item in params.split(): if '=' in item: params_dict[key] = value
RECURSIVE ParseItems(_, _)
ParseItems(items, params_dict) ==
    IF items = <<>> THEN params_dict
    ELSE ParseItems(Tail(items),
                    IF HasEquals(Head(items))
                    THEN SetItem(params_dict, SplitOnce(Head(items))[1],
                                 SplitOnce(Head(items))[2])
                    ELSE params_dict)

\* _extract_parameters: the dict itself, the parsed string, or {}
extract_parameters(t) ==
    LET m == extract_module_name(t)
    IN  IF m # NoModule /\ m # "" /\ InTask(t, m)
        THEN IF IsDict(GetItem(t, m)) THEN GetItem(t, m).dict
             ELSE IF IsStr(GetItem(t, m))
                  THEN ParseItems(SplitWords(GetItem(t, m).str, <<>>, <<>>), EmptyDict)
                  ELSE EmptyDict
        ELSE EmptyDict

NotExtracted == "not extracted"

\* extracted_module = converter._extract_module_name(task)
ExtractModuleName ==
    /\ xpc = "task"
    /\ extracted_module' = extract_module_name(task)
    /\ xpc' = "module"
    /\ UNCHANGED <<task, extracted_params, package_name, simple, translated,
                   retranslated, nonextraction>>

\* extracted_params = converter._extract_parameters(task)
ExtractParameters ==
    /\ xpc = "module"
    /\ extracted_params' = extract_parameters(task)
    /\ xpc' = "params"
    /\ UNCHANGED <<task, extracted_module, package_name, simple, translated,
                   retranslated, nonextraction>>

ExtractNext == ExtractModuleName \/ ExtractParameters

-----------------------------------------------------------------------------
(* _translate_package_name of both converters *)

\* translations of AnsibleToNixConverter._translate_package_name
Translations ==
    [name \in {"apache2", "build-essential", "libssl-dev", "python-pip", "nodejs",
               "docker.io", "docker-ce"} |->
        CASE name = "apache2" -> "apacheHttpd"
          [] name = "build-essential" -> "stdenv"
          [] name = "libssl-dev" -> "openssl.dev"
          [] name = "python-pip" -> "python3Packages.pip"
          [] name = "nodejs" -> "nodejs"
          [] name = "docker.io" -> "docker"
          [] name = "docker-ce" -> "docker"]

\* translations of SimpleAnsibleToNixConverter._translate_package_name
SimpleTranslations ==
    [name \in {"nginx", "git", "vim", "curl", "python3", "apache2",
               "build-essential", "nodejs", "docker.io", "docker-ce", "postgresql",
               "postgresql-contrib"} |->
        CASE name = "apache2" -> "apacheHttpd"
          [] name = "build-essential" -> "stdenv"
          [] name = "docker.io" -> "docker"
          [] name = "docker-ce" -> "docker"
          [] name = "postgresql-contrib" -> "postgresql"
          [] OTHER -> name]

Range(f) == {f[x] : x \in DOMAIN f}

\* the names of both tables, their translations, and names of neither
PackageNamesGiven ==
    DOMAIN Translations \cup Range(Translations)
        \cup DOMAIN SimpleTranslations \cup Range(SimpleTranslations)
        \cup {"custom-package", "a"}

\* translations.get(name, name)
Get(translations, name) ==
    IF name \in DOMAIN translations THEN translations[name] ELSE name

TableOf(is_simple) == IF is_simple THEN SimpleTranslations ELSE Translations

\* a translation that is itself translated: docker.io to docker-ce to docker
TranslateChained(is_simple, name) ==
    IF name = "docker.io" THEN "docker-ce" ELSE Get(TableOf(is_simple), name)

translate_package_name(is_simple, name) == Get(TableOf(is_simple), name)

\* translated = converter._translate_package_name(package_name)
TranslatePackageName ==
    /\ xpc = "name"
    /\ translated' = translate_package_name(simple, package_name)
    /\ xpc' = "translated"
    /\ UNCHANGED <<task, extracted_module, extracted_params, package_name, simple,
                   retranslated, nonextraction>>

\* translated2 = converter._translate_package_name(translated)
TranslateAgain ==
    /\ xpc = "translated"
    /\ retranslated' = translate_package_name(simple, translated)
    /\ xpc' = "retranslated"
    /\ UNCHANGED <<task, extracted_module, extracted_params, package_name, simple,
                   translated, nonextraction>>

TranslateNext == TranslatePackageName \/ TranslateAgain

-----------------------------------------------------------------------------
(* Specifications *)

ConvIdle ==
    /\ cpc = "idle"
    /\ module = NoModule
    /\ i = 1
    /\ best_score = 0
    /\ best_result = 0
    /\ scored = <<>>
    /\ searched = FALSE
    /\ generated = FALSE
    /\ outcome = Pending

\* NixBuilder.__init__: self.traced_derivations = {}
BuildIdle ==
    /\ traced_derivations = [k \in Keys |-> NoTrace]
    /\ bpc = [p \in Procs |-> "idle"]
    /\ call = [p \in Procs |-> "none"]
    /\ drv = [p \in Procs |-> NoDrv]
    /\ trace = [p \in Procs |-> NoTrace]
    /\ err = [p \in Procs |-> "none"]
    /\ lastrc = [p \in Procs |-> 0]
    /\ hung = [p \in Procs |-> FALSE]
    /\ files = [p \in Procs |-> {}]
    /\ produced = {}
    /\ ncalls = 0

\* AnsibleNixValidator.__init__: no validation has been started
ValidatorIdle ==
    /\ vpc = "idle"
    /\ containers = "down"
    /\ ansible_state = NoState
    /\ nix_state = NoState
    /\ validation = NoValidation
    /\ verr = ""

\* no task and no package name has been given to the converter
NoTask == task = <<>> /\ extracted_module = NotExtracted /\ extracted_params = NotExtracted
NoPackage ==
    /\ package_name = "" /\ simple = FALSE
    /\ translated = NotExtracted /\ retranslated = NotExtracted
ExtractIdle == xpc = "idle" /\ NoTask /\ NoPackage

\* StatefulConversionTest.__init__: self.tasks = [], self.converted = []
HarnessIdle == tasks = <<>> /\ converted = 0

\* no trace has been compared or preprocessed
NoComparison == ppc = "input" /\ returned = NoResult /\ rerun = NoResult
NoTraces == trace1 = <<>> /\ trace2 = <<>>
NoHoles == idx1 = 0 /\ idx2 = 0
NoText == text = <<>>
NoOperands == lhs = NotSyscall /\ rhs = NotSyscall
ComparisonIdle == NoTraces /\ NoHoles /\ NoText /\ NoOperands /\ NoComparison

\* AnsibleToNixConverter.__init__ with any trace database loaded
ConvInit ==
    /\ trace_database \in Databases
    /\ ConvIdle /\ BuildIdle /\ HarnessIdle /\ ExtractIdle /\ ValidatorIdle /\ ComparisonIdle

\* NixBuilder.__init__
BuildInit ==
    /\ trace_database = <<>>
    /\ ConvIdle /\ BuildIdle /\ HarnessIdle /\ ExtractIdle /\ ValidatorIdle /\ ComparisonIdle

\* any two traces of at most MaxLen syscalls, as the scorers read them: by name
ScoreInit ==
    /\ trace1 \in SeqsUpTo({Syscall(n, <<>>) : n \in SyscallNames}, MaxLen)
    /\ trace2 \in SeqsUpTo({Syscall(n, <<>>) : n \in SyscallNames}, MaxLen)
    /\ NoHoles /\ NoText /\ NoOperands /\ NoComparison
    /\ trace_database = <<>>
    /\ ConvIdle /\ BuildIdle /\ HarnessIdle /\ ExtractIdle /\ ValidatorIdle

ConvSpec == ConvInit /\ [][ConvNext]_vars

\* the stateful test, on a converter with any trace database
StatefulSpec == ConvInit /\ [][StatefulNext]_vars

\* any trace of at most MaxLen of the benchmarks' syscalls
PipelineInit ==
    /\ trace1 \in SeqsUpTo(PipelineSyscalls, MaxLen)
    /\ trace2 = <<>>
    /\ NoHoles /\ NoText /\ NoOperands /\ NoComparison
    /\ trace_database = <<>>
    /\ ConvIdle /\ BuildIdle /\ HarnessIdle /\ ExtractIdle /\ ValidatorIdle

\* the preprocessing pipeline on any trace, run once and run again
PipelineSpec == PipelineInit /\ [][PipelineNext]_vars

\* any two Holes with an index up to MaxIndex
HoleInit ==
    /\ idx1 \in 0..MaxIndex
    /\ idx2 \in 0..MaxIndex
    /\ NoTraces /\ NoText /\ NoOperands /\ NoComparison
    /\ trace_database = <<>>
    /\ ConvIdle /\ BuildIdle /\ HarnessIdle /\ ExtractIdle /\ ValidatorIdle

\* Hole equality on any two indices
HoleSpec == HoleInit /\ [][HoleNext]_vars

\* any string of at most MaxText characters
CanonicalInit ==
    /\ text \in SeqsUpTo(Alphabet, MaxText)
    /\ NoTraces /\ NoHoles /\ NoOperands /\ NoComparison
    /\ trace_database = <<>>
    /\ ConvIdle /\ BuildIdle /\ HarnessIdle /\ ExtractIdle /\ ValidatorIdle

\* CanonicalForm on any string, applied once and applied again
CanonicalSpec == CanonicalInit /\ [][CanonicalNext]_vars

\* two open/read/close traces that differ in the path and in the descriptor
ScenarioInit ==
    /\ \E path1, path2 \in ScenarioPaths : \E fd1, fd2 \in FirstFd..MaxFd :
          /\ path1 # path2
          /\ fd1 # fd2
          /\ trace1 = OpenReadClose(path1, fd1)
          /\ trace2 = OpenReadClose(path2, fd2)
    /\ NoHoles /\ NoText /\ NoOperands /\ NoComparison
    /\ trace_database = <<>>
    /\ ConvIdle /\ BuildIdle /\ HarnessIdle /\ ExtractIdle /\ ValidatorIdle

ScenarioSpec == ScenarioInit /\ [][ScenarioNext]_vars

\* any two operands
EqualityInit ==
    /\ lhs \in Operands
    /\ rhs \in Operands
    /\ NoTraces /\ NoHoles /\ NoText /\ NoComparison
    /\ trace_database = <<>>
    /\ ConvIdle /\ BuildIdle /\ HarnessIdle /\ ExtractIdle /\ ValidatorIdle

\* every equality strategy on any two operands
EqualitySpec == EqualityInit /\ [][EqualityNext]_vars

\* AnsibleNixValidator.__init__, then one call of validate_conversion
ValidateInit ==
    /\ trace_database = <<>>
    /\ ConvIdle /\ BuildIdle /\ HarnessIdle /\ ExtractIdle /\ ValidatorIdle /\ ComparisonIdle

ValidateSpec == ValidateInit /\ [][ValidateNext]_vars

\* any two captured system states
CompareInit ==
    /\ vpc = "captured"
    /\ containers = "up"
    /\ ansible_state \in SystemStates
    /\ nix_state \in SystemStates
    /\ validation = NoValidation
    /\ verr = ""
    /\ trace_database = <<>>
    /\ ConvIdle /\ BuildIdle /\ HarnessIdle /\ ExtractIdle /\ ComparisonIdle

\* _compare_states on any two system states
CompareSpec == CompareInit /\ [][CompareNext]_vars

\* any task of one module key among at most MaxKeywords task keywords
ExtractInit ==
    /\ xpc = "task"
    /\ \E t \in KeyOrders, v \in ModuleValues : task = WithValue(t, v)
    /\ extracted_module = NotExtracted /\ extracted_params = NotExtracted
    /\ NoPackage
    /\ trace_database = <<>>
    /\ ConvIdle /\ BuildIdle /\ HarnessIdle /\ ValidatorIdle /\ ComparisonIdle

\* both extraction methods on any such task
ExtractSpec == ExtractInit /\ [][ExtractNext]_vars

\* either converter and any package name
TranslateInit ==
    /\ xpc = "name"
    /\ package_name \in PackageNamesGiven
    /\ simple \in BOOLEAN
    /\ translated = NotExtracted /\ retranslated = NotExtracted
    /\ NoTask
    /\ trace_database = <<>>
    /\ ConvIdle /\ BuildIdle /\ HarnessIdle /\ ValidatorIdle /\ ComparisonIdle

\* _translate_package_name on any name, and again on its result
TranslateSpec == TranslateInit /\ [][TranslateNext]_vars

\* the scoring functions on any pair of traces
ScoreSpec == ScoreInit /\ [][ScoreNext]_vars

BuildSpec == BuildInit /\ [][BuildNext]_vars

BuildSeqSpec == BuildInit /\ [][BuildSeqNext]_vars

\* the builder's code runs on once the external process it waits for has
\* exited; nothing obliges the environment to interrupt a call
BuildFairSpec == BuildSeqSpec /\ \A p \in Procs : WF_vars(BuilderStep(p))

-----------------------------------------------------------------------------
(* Properties of AnsibleToNixConverter, checked under ConvSpec *)

\* positions of the corpus entries the search has scored
Candidates == {a \in 1..Len(scored) : scored[a] # NotScored}

\* the highest score among the scored entries
BestScored == CHOOSE s \in {scored[a] : a \in Candidates} :
                  \A a \in Candidates : scored[a] <= s

\* the first scored entry, in insertion order, that has the highest score
FirstBest == CHOOSE a \in Candidates :
                 /\ scored[a] = BestScored
                 /\ \A b \in Candidates : scored[b] = BestScored => a <= b

\* the task takes the syscall-based path
SyscallPath == module \notin MODULE_MAPPINGS \cup {NoModule}

\* C1: when the search has returned and the best-scoring candidate scores
\* below the threshold, the conversion returns None and _generate_from_match
\* was not invoked; and no returned config comes from a candidate that scored
\* below the threshold.
C1_BelowThresholdIsNoMatch ==
    /\ (searched /\ Candidates # {} /\ BestScored < Threshold)
           => (outcome = NoConfig /\ ~generated)
    /\ (outcome.kind = "config" /\ outcome.from # 0)
           => (generated /\ scored[outcome.from] >= Threshold)

C1_Witness ==
    /\ searched
    /\ Candidates # {}
    /\ BestScored = 55
    /\ outcome = NoConfig

C3_ReturnsFirstBest ==
    (searched /\ Candidates # {}) => best_result = FirstBest

\* C3, amended: when some scored entry scores above 0, _find_best_nix_match
\* returns the first entry in insertion order that has the highest score;
\* when none does (all score 0, or nothing was scored) it returns None.
C3_ReturnsFirstBestAboveZero ==
    searched =>
        IF Candidates # {} /\ BestScored > 0
        THEN best_result = FirstBest /\ best_score = BestScored
        ELSE best_result = 0

C3_Witness ==
    /\ searched
    /\ \E a, b \in Candidates :
           a < b /\ scored[a] = BestScored /\ scored[b] = BestScored
    /\ BestScored > 0
    /\ best_result = FirstBest

\* C4, as claimed: a corpus entry that cannot be scored never aborts the
\* search: with the source trace there and an entry in the corpus that can be
\* scored, the search runs to its end and raises nothing.
C4_BadEntryIsSkipped ==
    (/\ cpc = "done"
     /\ SyscallPath
     /\ ~Falsy(TraceAnsibleModule(trace_database, module))
     /\ \E a \in 1..Len(trace_database) :
            StartsWithNix(trace_database[a].key) /\ CanScore(trace_database[a]))
        => /\ outcome # Raised
           /\ searched

\* C10, as claimed: on the syscall-based path the conversion ends in a fatal
\* failure exactly when the source trace cannot be obtained.
C10_FatalOnlyWithoutSourceTrace ==
    (cpc = "done" /\ SyscallPath)
        => (outcome = Raised <=> TraceAnsibleModule(trace_database, module) = "None")

\* C11, as claimed: after any sequence of add_task and convert_task rules
\* the number of collected results is at most the number of tasks added.
C11_NoLostTasks == converted <= Len(tasks)

\* C12 (ConvSpec): every result _convert_task returns that is not None holds
\* a 'module' and a 'config' field, from the direct mapping or from a match.
C12_ResultsHaveModuleAndConfig ==
    (cpc = "done" /\ outcome.kind = "config")
        => {"module", "config"} \subseteq outcome.fields

C12_Witness ==
    /\ cpc = "done"
    /\ generated
    /\ outcome.kind = "config"
    /\ outcome.from # 0
    /\ "config" \in outcome.fields

-----------------------------------------------------------------------------
(* Properties of the scoring functions *)

\* C13, as claimed: for all traces, empty ones included, the mapping has at
\* most min(|A|, |B|) pairs and the score is defined, equals
\* len(mapping) / max(|A|, |B|) and lies in [0.0, 1.0].
C13_MatchingScoreDefined ==
    ppc = "matched" =>
        /\ Len(returned.mapping) <= Min(Len(trace1), Len(trace2))
        /\ returned.score # ZeroDivisionError
        /\ returned.score.den = Max(Len(trace1), Len(trace2))
        /\ returned.score.num = Len(returned.mapping)
        /\ ScoreLeq(Ratio(0, 1), returned.score)
        /\ ScoreLeq(returned.score, Ratio(1, 1))

\* pairs of a mapping that cross: i1 < i2 matched to j1 > j2
Inversions(m) ==
    Cardinality({pq \in (1..Len(m)) \X (1..Len(m)) :
                    m[pq[1]][1] < m[pq[2]][1] /\ m[pq[1]][2] > m[pq[2]][2]})

\* every matching of positions of a to positions of b with equal names
AllMatchings(a, b) ==
    {m \in SUBSET ((1..Len(a)) \X (1..Len(b))) :
        /\ \A e \in m : a[e[1]].name = b[e[2]].name
        /\ \A e, f \in m : (e[1] = f[1] \/ e[2] = f[2]) => e = f}

SetInversions(m) ==
    Cardinality({ef \in m \X m : ef[1][1] < ef[2][1] /\ ef[1][2] > ef[2][2]})

\* C14, as claimed: among the maximum-cardinality matchings of two traces
\* the one returned has the fewest index inversions.
C14_FewestInversions ==
    ppc = "matched" =>
        \A m \in AllMatchings(trace1, trace2) :
            Cardinality(m) >= Len(returned.mapping)
                => Inversions(returned.mapping) <= SetInversions(m)

C16_JaccardBoundedSymmetric ==
    ppc = "jaccard" =>
        /\ returned.den > 0
        /\ ScoreLeq(Ratio(0, 1), returned)
        /\ ScoreLeq(returned, Ratio(1, 1))
        /\ ScoreEq(returned, jaccard_score(trace2, trace1))

C16_Witness ==
    /\ ppc = "jaccard"
    /\ Len(trace1) # Len(trace2)
    /\ NameSet(trace1) # NameSet(trace2)
    /\ ~ScoreLeq(returned, Ratio(0, 1))
    /\ ~ScoreLeq(Ratio(1, 1), returned)

\* C17 (ScoreSpec): the Jaccard score is exactly 1.0 when the two traces have
\* the same set of syscall names, both sets empty included, and exactly 0.0
\* when exactly one of the two sets is empty.
C17_JaccardEdgeCases ==
    ppc = "jaccard" =>
        /\ NameSet(trace1) = NameSet(trace2) => ScoreEq(returned, Ratio(1, 1))
        /\ (NameSet(trace1) = {}) # (NameSet(trace2) = {})
              => ScoreEq(returned, Ratio(0, 1))

C17_Witness ==
    /\ ppc = "jaccard"
    /\ trace1 = <<>>
    /\ trace2 = <<>>
    /\ returned = Ratio(1, 1)

\* C18, as claimed: running PunchHoles then ReplaceFileDescriptors on any
\* trace and then both again on the result gives the trace of the first run.
C18_PipelineIdempotent == ppc = "twice" => rerun = returned

C20_HoleEqualIffSameIndex == ppc = "compared" => (returned <=> idx1 = idx2)

C20_Witness == ppc = "compared" /\ idx1 # idx2 /\ idx1 > 0 /\ returned = FALSE

\* C21 (EqualitySpec): each equality strategy is total and symmetric: for
\* every pair of operands it returns a boolean without raising, the same for
\* (a, b) and (b, a), and a non-syscall operand is a non-match.
C21_StrategiesTotalSymmetric ==
    ppc \in EqualityStrategies =>
        /\ returned \in {"True", "False"}
        /\ returned = Apply(ppc, rhs, lhs)
        /\ (~IsSyscall(lhs) \/ ~IsSyscall(rhs)) => returned = "False"

C21_Witness ==
    /\ ppc = "StrictEquality"
    /\ IsSyscall(lhs)
    /\ ~IsSyscall(rhs)
    /\ returned = "False"

-----------------------------------------------------------------------------
(* Properties of AnsibleNixValidator *)

\* C22 (CompareSpec): every result of _compare_states has success = true
\* only if its score is at least 0.8 and its errors list is empty.
C22_SuccessNeedsScoreAndNoErrors ==
    vpc = "compared" =>
        (validation.success =>
            /\ ScoreLeq(Ratio(8, 10), validation.score)
            /\ validation.errors = {})

C22_Witness ==
    /\ vpc = "compared"
    /\ validation.success
    /\ ScoreEq(validation.score, Ratio(8, 10))
    /\ validation.differences # {}

\* C23, as claimed: whenever the result validate_conversion returns has
\* success = false, its errors list is non-empty.
C23_FailureHasErrors ==
    (vpc = "returned" /\ ~validation.success) => validation.errors # {}

\* C27, as claimed: in every call of validate_conversion in which the
\* containers were started, they are stopped when the call returns or raises.
C27_ContainersStopped == vpc \in {"returned", "raised"} => containers # "up"

\* C28, as claimed: _compare_states on two identical states reports no
\* differences, score 1.0 and success, whatever fields of the state are empty.
C28_IdenticalStatesSucceed ==
    (vpc = "compared" /\ ansible_state = nix_state) =>
        /\ validation.differences = {}
        /\ ScoreEq(validation.score, Ratio(1, 1))
        /\ validation.success

-----------------------------------------------------------------------------
(* Properties of NixBuilder *)

\* the cache key of the derivation a trace was built from
TraceKey(t) == HashDerivation([name |-> t.name, builder |-> t.builder])

\* the exceptions raised for an external process that exited non-zero
CollectionErrors ==
    {"Failed to instantiate", "Failed to parse derivation", "Build failed"}

\* C5 (BuildSpec): when nix-instantiate, nix show-derivation or the traced
\* nix-build of a call exits non-zero, the call ends with the matching
\* exception and gives its caller no trace.
C5_FailedCollectionGivesNoTrace ==
    \A p \in Procs :
        lastrc[p] # 0 =>
            /\ bpc[p] = "failed"
            /\ trace[p] = NoTrace
            /\ err[p] \in CollectionErrors

C5_Witness ==
    \E p \in Procs :
        /\ lastrc[p] # 0
        /\ err[p] = "Build failed"
        /\ call[p] = "trace_nix_build"

\* C6 (BuildSpec): the cache changes only in the step that completes a call
\* successfully, so a call that fails or is interrupted has left the cache as
\* it found it.
C6_FailedCallLeavesCache ==
    [][traced_derivations' # traced_derivations
           => \E p \in Procs : bpc[p] = "store" /\ bpc'[p] = "done"]_vars

C6_Witness ==
    \E p \in Procs :
        /\ bpc[p] = "failed"
        /\ err[p] = "Build failed"
        /\ drv[p] \in Derivations
        /\ traced_derivations[HashDerivation(drv[p])] = NoTrace
        /\ \E k \in Keys : traced_derivations[k] # NoTrace

\* C7 (BuildSeqSpec): calls made one after another. A call that returns gives
\* the trace cached for its key; no traced build runs for a key that is
\* cached; so a traced build succeeds at most once for a key.
C7_CachedTraceReused ==
    /\ \A p \in Procs :
           bpc[p] = "done" => trace[p] = traced_derivations[HashDerivation(drv[p])]
    /\ \A p \in Procs :
           bpc[p] \in {"build", "store"}
               => traced_derivations[HashDerivation(drv[p])] = NoTrace
    /\ \A t1, t2 \in produced : TraceKey(t1) = TraceKey(t2) => t1 = t2

C7_Witness ==
    /\ \A p \in Procs : bpc[p] = "done"
    /\ \A p, q \in Procs : HashDerivation(drv[p]) = HashDerivation(drv[q])
    /\ \A p, q \in Procs : trace[p] = trace[q]
    /\ \A p \in Procs : trace[p] \in produced
    /\ Cardinality(produced) = 1

\* C8 (BuildSpec): calls that interleave. In every state a cache entry is
\* absent or a whole trace that a build for that key returned, and a store
\* replaces the entry with the storing call's trace (the last write wins).
C8_CacheEntriesComplete ==
    /\ [](\A k \in Keys :
              \/ traced_derivations[k] = NoTrace
              \/ /\ traced_derivations[k] \in produced
                 /\ TraceKey(traced_derivations[k]) = k)
    /\ [][\A p \in Procs :
              (bpc[p] = "store" /\ bpc'[p] = "done")
                  => traced_derivations'[HashDerivation(drv[p])] = trace[p]]_vars

C8_Witness ==
    /\ \A p \in Procs : bpc[p] = "done" /\ trace[p] \in produced
    /\ \A p, q \in Procs : HashDerivation(drv[p]) = HashDerivation(drv[q])
    /\ \E p, q \in Procs :
           /\ trace[p] # trace[q]
           /\ trace[p].run < trace[q].run
           /\ traced_derivations[HashDerivation(drv[p])] = trace[p]

\* C9, as claimed (BuildFairSpec): every call that waits for an external
\* process eventually ends, in a trace or in a failure.
C9_CollectionEnds ==
    \A p \in Procs : (bpc[p] \in Waiting) ~> (bpc[p] \in Rest)

-----------------------------------------------------------------------------
(* Properties of task extraction, checked under ExtractSpec *)

\* the one key of the task that is no task keyword, and its value
TheModuleKey == CHOOSE k \in ModuleKeys : \E a \in 1..Len(task) : task[a].key = k
TheModuleValue ==
    (CHOOSE it \in {task[a] : a \in 1..Len(task)} : it.key = TheModuleKey).value

\* the tokens of a string: <<a, b>> where s[a..b] is a longest run without a blank
Tokens(s) ==
    {r \in (1..Len(s)) \X (1..Len(s)) :
        /\ r[1] <= r[2]
        /\ \A k \in r[1]..r[2] : s[k] # " "
        /\ r[1] = 1 \/ s[r[1] - 1] = " "
        /\ r[2] = Len(s) \/ s[r[2] + 1] = " "}
KeyValueTokens(s) == {r \in Tokens(s) : \E k \in r[1]..r[2] : s[k] = "="}
EqualsAt(s, r) ==
    CHOOSE k \in r[1]..r[2] : s[k] = "=" /\ \A j \in r[1]..(k - 1) : s[j] # "="
KeyOf(s, r) == SubSeq(s, r[1], EqualsAt(s, r) - 1)
ValueOf(s, r) == SubSeq(s, EqualsAt(s, r) + 1, r[2])
\* the dict of the key=value tokens: a key written twice keeps its last value
TokenDict(s) ==
    [k \in {KeyOf(s, r) : r \in KeyValueTokens(s)} |->
        ValueOf(s, CHOOSE r \in KeyValueTokens(s) :
                       /\ KeyOf(s, r) = k
                       /\ \A q \in KeyValueTokens(s) : KeyOf(s, q) = k => q[1] <= r[1])]

\* C24 (ExtractSpec): for a task of one module key among task keywords, in
\* any key order, _extract_module_name returns the module key, and
\* _extract_parameters returns the module's dict unchanged, or for a string
\* value the dict of exactly its key=value tokens, each split at its first '='.
C24_ExtractionFaithful ==
    /\ xpc \in {"module", "params"} => extracted_module = TheModuleKey
    /\ (xpc = "params" /\ IsDict(TheModuleValue))
           => extracted_params = TheModuleValue.dict
    /\ (xpc = "params" /\ IsStr(TheModuleValue))
           => extracted_params = TokenDict(TheModuleValue.str)

\* a string value after two task keywords, with a token that has no '=' and a
\* token whose value holds a second '='
C24_Witness ==
    /\ xpc = "params"
    /\ task[1].key \in TaskKeywords /\ task[Len(task)].key = TheModuleKey
    /\ IsStr(TheModuleValue)
    /\ Tokens(TheModuleValue.str) # KeyValueTokens(TheModuleValue.str)
    /\ \E k \in DOMAIN extracted_params :
           \E j \in 1..Len(extracted_params[k]) : extracted_params[k][j] = "="

-----------------------------------------------------------------------------
(* Properties of package name translation, checked under TranslateSpec *)

\* C25 (TranslateSpec): in both converters a name with no entry in the
\* translation table is returned unchanged, and translating a translated name
\* returns it unchanged.
C25_TranslationIdempotent ==
    /\ (xpc \in {"translated", "retranslated"}
            /\ package_name \notin DOMAIN TableOf(simple))
           => translated = package_name
    /\ xpc = "retranslated" => retranslated = translated

\* a name with an entry that renames it, translated twice
C25_Witness ==
    /\ xpc = "retranslated"
    /\ package_name \in DOMAIN TableOf(simple)
    /\ translated # package_name

-----------------------------------------------------------------------------
(* Properties of AnsibleToNixConverter._convert_task, checked under ConvSpec *)

\* C26 (ConvSpec): _convert_task uses the direct mapping exactly when the
\* extracted module is in MODULE_MAPPINGS, and then looks up no trace and
\* scores no corpus entry; any other module goes through the syscall-based
\* conversion; the call returns None when no module was extracted and when
\* the syscall-based conversion gave nothing.
C26_DirectMappingFirst ==
    /\ (cpc # "idle" /\ module \in MODULE_MAPPINGS)
           => /\ cpc = "done" /\ outcome = DirectConfig
              /\ ~searched /\ ~generated /\ scored = <<>> /\ i = 1
    /\ (cpc = "done" /\ outcome = DirectConfig) => module \in MODULE_MAPPINGS
    /\ (cpc = "done" /\ module = NoModule)
           => outcome = NoConfig /\ ~searched /\ scored = <<>>
    /\ (cpc = "done" /\ module \notin MODULE_MAPPINGS \cup {NoModule})
           => \/ /\ Falsy(TraceAnsibleModule(trace_database, module))
                 /\ outcome = NoConfig /\ ~searched
              \/ /\ ~Falsy(TraceAnsibleModule(trace_database, module))
                 /\ \/ outcome = Raised /\ ~searched
                    \/ searched /\ ~generated /\ outcome = NoConfig
                    \/ searched /\ generated /\ outcome.kind = "config"
                           /\ outcome.from \in 1..Len(trace_database)

\* a mapped module converted while the corpus holds a trace cached for it and
\* a trace of a Nix module
C26_Witness ==
    /\ cpc = "done" /\ module \in MODULE_MAPPINGS /\ outcome = DirectConfig
    /\ Lookup(trace_database, CacheKey(module)) = "trace"
    /\ \E a \in 1..Len(trace_database) :
           StartsWithNix(trace_database[a].key) /\ trace_database[a].val = "trace"

-----------------------------------------------------------------------------
(* Properties of the NixBuilder cache key and temporary files *)

\* C29, as claimed (BuildSeqSpec): two derivations that differ in name or
\* builder never share a cache entry, so the trace a call returns was
\* recorded for a derivation with the name and the builder of the call's own.
C29_CacheKeyInjective ==
    \A p \in Procs :
        bpc[p] = "done"
            => trace[p].name = drv[p].name /\ trace[p].builder = drv[p].builder

\* C30, as claimed (BuildSeqSpec): when a call has returned or raised, no
\* temporary file it created exists.
C30_TempFilesDeleted ==
    \A p \in Procs : bpc[p] \in {"done", "failed"} => files[p] = {}

====
